---- MODULE Spec2Model ----
(***************************************************************************)
(* Chat request gateway: resolvers.Mutation.chat (src/src/resolvers.ts)    *)
(* and the upstream client DeepSeekAPI.chat (src/src/deepseek.ts).         *)
(*                                                                         *)
(* A JavaScript string is a sequence of UTF-16 code units.  A printable    *)
(* ASCII unit is written as itself ("D"), any other unit by its code       *)
(* ("u6D88"), so that includes(), trim() and concatenation are computed    *)
(* on the units as the engine computes them.  An optional value is a       *)
(* sequence of length 0 (undefined) or 1; null is a value of its own.      *)
(* The temperature is counted in tenths.                                   *)
(***************************************************************************)
EXTENDS Integers, Sequences, FiniteSets, TLC

\* Longest message and systemPrompt explored.
MaxTextLen == 2
\* Longest upstream error body explored (besides the bodies echoing the key).
MaxBodyLen == 3

Undefined == <<>>
Some(v) == <<v>>
\* The null of JavaScript, which a nullable GraphQL field may carry.
Null == <<"null", "null">>
\* Neither undefined nor null.
IsDefined(o) == Len(o) = 1
Get(o) == o[1]

----
\* String literals of the source.

\* "DeepSeek API \u5bc6\u94a5\u672a\u914d\u7f6e\uff0c\u8bf7\u5728\u73af\u5883\u53d8\u91cf\u4e2d\u8bbe\u7f6e DEEPSEEK_API_KEY"
MissingKeyText ==
    <<"D", "e", "e", "p", "S", "e", "e", "k", " ", "A", "P", "I", " ", "u5BC6", "u94A5", "u672A", "u914D", "u7F6E", "uFF0C", "u8BF7", "u5728", "u73AF", "u5883", "u53D8", "u91CF", "u4E2D", "u8BBE", "u7F6E", " ", "D", "E", "E", "P", "S", "E", "E", "K", "_", "A", "P", "I", "_", "K", "E", "Y">>
\* "\u6d88\u606f\u5185\u5bb9\u4e0d\u80fd\u4e3a\u7a7a"
EmptyMessageText ==
    <<"u6D88", "u606F", "u5185", "u5BB9", "u4E0D", "u80FD", "u4E3A", "u7A7A">>
\* "DeepSeek API \u8fd4\u56de\u4e86\u65e0\u6548\u7684\u54cd\u5e94"
InvalidResponseText ==
    <<"D", "e", "e", "p", "S", "e", "e", "k", " ", "A", "P", "I", " ", "u8FD4", "u56DE", "u4E86", "u65E0", "u6548", "u7684", "u54CD", "u5E94">>
\* "DeepSeek API \u5bc6\u94a5\u65e0\u6548\uff0c\u8bf7\u68c0\u67e5\u914d\u7f6e"
InvalidKeyText ==
    <<"D", "e", "e", "p", "S", "e", "e", "k", " ", "A", "P", "I", " ", "u5BC6", "u94A5", "u65E0", "u6548", "uFF0C", "u8BF7", "u68C0", "u67E5", "u914D", "u7F6E">>
\* "\u8bf7\u6c42\u9891\u7387\u8fc7\u9ad8\uff0c\u8bf7\u7a0d\u540e\u91cd\u8bd5"
RateLimitedText ==
    <<"u8BF7", "u6C42", "u9891", "u7387", "u8FC7", "u9AD8", "uFF0C", "u8BF7", "u7A0D", "u540E", "u91CD", "u8BD5">>
\* "DeepSeek \u670d\u52a1\u6682\u65f6\u4e0d\u53ef\u7528\uff0c\u8bf7\u7a0d\u540e\u91cd\u8bd5"
UnavailableText ==
    <<"D", "e", "e", "p", "S", "e", "e", "k", " ", "u670D", "u52A1", "u6682", "u65F6", "u4E0D", "u53EF", "u7528", "uFF0C", "u8BF7", "u7A0D", "u540E", "u91CD", "u8BD5">>
\* "\u804a\u5929\u8bf7\u6c42\u5931\u8d25: "
ChatFailedPrefix ==
    <<"u804A", "u5929", "u8BF7", "u6C42", "u5931", "u8D25", ":", " ">>
\* "\u5904\u7406\u804a\u5929\u8bf7\u6c42\u65f6\u53d1\u751f\u672a\u77e5\u9519\u8bef"
UnknownErrorText ==
    <<"u5904", "u7406", "u804A", "u5929", "u8BF7", "u6C42", "u65F6", "u53D1", "u751F", "u672A", "u77E5", "u9519", "u8BEF">>
\* "DeepSeek API Error: "
ApiErrorPrefix ==
    <<"D", "e", "e", "p", "S", "e", "e", "k", " ", "A", "P", "I", " ", "E", "r", "r", "o", "r", ":", " ">>
\* " - "
ApiErrorSep ==
    <<" ", "-", " ">>
\* "DeepSeek API 密钥未配置" (resolvers.ts:39)
ModelsMissingKeyText ==
    <<"D", "e", "e", "p", "S", "e", "e", "k", " ", "A", "P", "I", " ", "u5BC6", "u94A5", "u672A", "u914D", "u7F6E">>
\* "deepseekApi.getModels is not a function": the TypeError of the engine
\* when the client class has no getModels (src/src/deepseek.ts has none).
NotAFunctionText ==
    <<"d", "e", "e", "p", "s", "e", "e", "k", "A", "p", "i", ".", "g", "e", "t", "M", "o", "d", "e", "l", "s", " ", "i", "s", " ", "n", "o", "t", " ", "a", " ", "f", "u", "n", "c", "t", "i", "o", "n">>
\* "fetch failed"
FetchFailedText ==
    <<"f", "e", "t", "c", "h", " ", "f", "a", "i", "l", "e", "d">>
\* The messages below are those of the engine (V8), not of the source.
\* "Unexpected end of JSON input": response.json() on an empty body.
JsonSyntaxText ==
    <<"U", "n", "e", "x", "p", "e", "c", "t", "e", "d", " ", "e", "n", "d", " ", "o", "f", " ", "J", "S", "O", "N", " ", "i", "n", "p", "u", "t">>
\* "Unexpected token '": response.json() on a body that is not JSON.
UnexpectedTokenText ==
    <<"U", "n", "e", "x", "p", "e", "c", "t", "e", "d", " ", "t", "o", "k", "e", "n", " ", "'">>
\* "', " and the opening quote of the body.
QuotedBodyOpenText ==
    <<"'", ",", " ", "u0022">>
\* The closing quote and " is not valid JSON".
NotValidJsonText ==
    <<"u0022", " ", "i", "s", " ", "n", "o", "t", " ", "v", "a", "l", "i", "d", " ", "J", "S", "O", "N">>
\* "Cannot read properties of undefined (reading '0')": response.choices[0]
\* on a body without choices.
IndexOfUndefinedText ==
    <<"C", "a", "n", "n", "o", "t", " ", "r", "e", "a", "d", " ", "p", "r", "o", "p", "e", "r", "t", "i", "e", "s", " ", "o", "f", " ", "u", "n", "d", "e", "f", "i", "n", "e", "d", " ", "(", "r", "e", "a", "d", "i", "n", "g", " ", "'", "0", "'", ")">>
\* "Cannot read properties of null (reading '0')": response.choices[0] on
\* a body whose choices is null.
IndexOfNullText ==
    <<"C", "a", "n", "n", "o", "t", " ", "r", "e", "a", "d", " ", "p", "r", "o", "p", "e", "r", "t", "i", "e", "s", " ", "o", "f", " ", "n", "u", "l", "l", " ", "(", "r", "e", "a", "d", "i", "n", "g", " ", "'", "0", "'", ")">>
\* "Cannot read properties of null (reading 'choices')": response.choices
\* on the body null.
ReadOfNullText ==
    <<"C", "a", "n", "n", "o", "t", " ", "r", "e", "a", "d", " ", "p", "r", "o", "p", "e", "r", "t", "i", "e", "s", " ", "o", "f", " ", "n", "u", "l", "l", " ", "(", "r", "e", "a", "d", "i", "n", "g", " ", "'", "c", "h", "o", "i", "c", "e", "s", "'", ")">>

----
\* The string operations the handler uses.

\* The units String.prototype.trim strips: the WhiteSpace and LineTerminator
\* of ECMAScript (TAB, LF, VT, FF, CR, SP, NBSP, U+1680, U+2000..U+200A,
\* U+2028, U+2029, U+202F, U+205F, U+3000, U+FEFF).
WhiteSpace ==
    {"u0009", "u000A", "u000B", "u000C", "u000D", " ", "u00A0", "u1680",
     "u2000", "u2001", "u2002", "u2003", "u2004", "u2005", "u2006", "u2007", "u2008", "u2009", "u200A",
     "u2028", "u2029", "u202F", "u205F", "u3000", "uFEFF"}

\* String.prototype.includes
Includes(s, sub) ==
    \E i \in 0..(Len(s) - Len(sub)) : SubSeq(s, i + 1, i + Len(sub)) = sub

\* String.prototype.trim: drop the white space at both ends.
Trim(s) ==
    LET keep == {i \in 1..Len(s) : s[i] \notin WhiteSpace}
    IN  IF keep = {} THEN <<>>
        ELSE SubSeq(s, CHOOSE i \in keep : \A j \in keep : i <= j,
                       CHOOSE i \in keep : \A j \in keep : j <= i)

\* Truthiness of an optional string: undefined and "" are falsy.
Truthy(o) == IsDefined(o) /\ Len(Get(o)) > 0

\* The value of a default parameter or of `o || d` on a string that is
\* not empty: the default when there is no value.
OrDefault(o, d) == IF IsDefined(o) THEN Get(o) ELSE d

\* The value a destructuring default leaves: the default when undefined
\* only; null stays null.
Defaulted(o, d) == IF o = Undefined THEN Some(d) ELSE o
\* The value itself, as it is serialised: a string, or null.
JsValue(o) == IF o = Null THEN Null ELSE Get(o)
\* ToNumber, as Math.min applies it to its arguments: null is 0.
ToNumber(o) == IF o = Null THEN 0 ELSE Get(o)

Digit(d) ==
    CASE d = 0 -> "0" [] d = 1 -> "1" [] d = 2 -> "2" [] d = 3 -> "3"
      [] d = 4 -> "4" [] d = 5 -> "5" [] d = 6 -> "6" [] d = 7 -> "7"
      [] d = 8 -> "8" [] d = 9 -> "9"

\* Number to string inside a template literal, for a natural number.
RECURSIVE NumberToString(_)
NumberToString(n) ==
    IF n < 10 THEN <<Digit(n)>>
    ELSE NumberToString(n \div 10) \o <<Digit(n % 10)>>

MathMin(a, b) == IF a < b THEN a ELSE b
MathMax(a, b) == IF a > b THEN a ELSE b

DefaultModel == "deepseek-chat"
DefaultTemperature == 7
DefaultMaxTokens == 2000
MaxTokensFloor == 1
MaxTokensCeiling == 4000
TemperatureFloor == 0
TemperatureCeiling == 10
DefaultBaseUrl == "https://api.deepseek.com/v1"

\* resolvers.ts:77: the key check.
KeyMissing(apiKey) == ~Truthy(apiKey)

\* A validation that forgets to trim: a white-space message passes.
MessageInvalidNoTrim(message) == ~Truthy(message)

\* resolvers.ts:82: the message check.
MessageInvalid(message) == ~Truthy(message) \/ Len(Trim(Get(message))) = 0

\* resolvers.ts:115-116
ClampTemperature(t) == MathMax(TemperatureFloor, MathMin(TemperatureCeiling, t))
\* A clamp that forgets the lower bound.
ClampMaxTokensUpperOnly(n) == MathMin(MaxTokensCeiling, n)
ClampMaxTokens(n) == MathMax(MaxTokensFloor, MathMin(MaxTokensCeiling, n))

\* A messages array that tests the system prompt before trimming only.
BuildMessagesNoBlankTest(message, systemPrompt) ==
    (IF Truthy(systemPrompt)
       THEN <<[role |-> "system", content |-> Trim(Get(systemPrompt))]>>
       ELSE <<>>)
    \o <<[role |-> "user", content |-> Trim(Get(message))]>>

\* resolvers.ts:93-107: the messages array.
BuildMessages(message, systemPrompt) ==
    (IF Truthy(systemPrompt) /\ Len(Trim(Get(systemPrompt))) > 0
       THEN <<[role |-> "system", content |-> Trim(Get(systemPrompt))]>>
       ELSE <<>>)
    \o <<[role |-> "user", content |-> Trim(Get(message))]>>

\* resolvers.ts:66-74, 112-117: the request handed to DeepSeekAPI.chat.
BuildRequest(in) ==
    [model       |-> JsValue(Defaulted(in.model, DefaultModel)),
     messages    |-> BuildMessages(in.message, in.systemPrompt),
     temperature |-> ClampTemperature(
                         ToNumber(Defaulted(in.temperature, DefaultTemperature))),
     max_tokens  |-> ClampMaxTokens(
                         ToNumber(Defaulted(in.maxTokens, DefaultMaxTokens)))]

BearerPrefix == <<"B", "e", "a", "r", "e", "r", " ">>

\* deepseek.ts:38-51: the POST that DeepSeekAPI.chat issues.
FetchCall(apiKey, baseUrl, request) ==
    [url           |-> OrDefault(baseUrl, DefaultBaseUrl) \o "/chat/completions",
     method        |-> "POST",
     authorization |-> BearerPrefix \o apiKey,
     contentType   |-> "application/json",
     body          |-> request]

\* deepseek.ts:53-56: the error raised on a status that is not 2xx.
ApiError(status, errorText) ==
    [isError |-> TRUE,
     message |-> ApiErrorPrefix \o NumberToString(status) \o ApiErrorSep \o errorText]

JsError(text) == [isError |-> TRUE, message |-> text]
\* deepseek.ts:54, 58: the TypeError with which response.text() and
\* response.json() reject when the body stream fails before its end.
BodyReadError ==
    JsError(<<"t", "e", "r", "m", "i", "n", "a", "t", "e", "d">>)
\* A thrown value that is not an Error object.
NonError == [isError |-> FALSE, message |-> <<>>]

\* resolvers.ts:156-168: the message of the error the catch block throws.
Translate(error) ==
    IF error.isError
      THEN IF Includes(error.message, <<"4", "0", "1">>) THEN InvalidKeyText
           ELSE IF Includes(error.message, <<"4", "2", "9">>) THEN RateLimitedText
           ELSE IF Includes(error.message, <<"5", "0", "0">>) THEN UnavailableText
           ELSE ChatFailedPrefix \o error.message
      ELSE UnknownErrorText

ZeroUsage == [promptTokens |-> 0, completionTokens |-> 0, totalTokens |-> 0]

\* The white space the JSON parser skips: TAB, LF, CR, SP.
JsonWhiteSpace == {"u0009", "u000A", "u000D", " "}
\* The bodies the engine reports without naming a token: NaN, Infinity,
\* undefined, [object Object].
SpecialStrings ==
    {<<"N", "a", "N">>, <<"I", "n", "f", "i", "n", "i", "t", "y">>,
     <<"u", "n", "d", "e", "f", "i", "n", "e", "d">>,
     <<"[", "o", "b", "j", "e", "c", "t", " ", "O", "b", "j", "e", "c", "t", "]">>}

\* deepseek.ts:58: the SyntaxError of response.json() on a body shorter than
\* 21 units that is empty or white space, or whose first unit after the
\* white space starts no JSON value and no literal (true, false, null).
\* The body is quoted whole; the token named is that first unit.
JsonSyntaxError(body) ==
    LET rest == {i \in 1..Len(body) : body[i] \notin JsonWhiteSpace}
    IN  JsError(
          IF rest = {} THEN JsonSyntaxText
          ELSE IF body \in SpecialStrings
            THEN <<"u0022">> \o body \o NotValidJsonText
          ELSE UnexpectedTokenText
                 \o <<body[CHOOSE i \in rest : \A k \in rest : i <= k]>>
                 \o QuotedBodyOpenText \o body \o NotValidJsonText)

\* The parsed body null.
JsonNull == [isNull |-> TRUE]

\* A parsed object is the record of its fields that are not null, with
\* the names of its null fields, if any, under nullFields.
NullField(response, name) ==
    "nullFields" \in DOMAIN response /\ name \in response.nullFields

\* resolvers.ts:120: response.choices[0] raises a TypeError when the body
\* is null, or has no choices, or has choices null.
ChoicesReadable(response) ==
    response /= JsonNull /\ "choices" \in DOMAIN response

\* resolvers.ts:120-123: the error raised for a body that gives no result.
MappingError(response) ==
    IF response = JsonNull THEN JsError(ReadOfNullText)
    ELSE IF NullField(response, "choices") THEN JsError(IndexOfNullText)
    ELSE IF "choices" \notin DOMAIN response THEN JsError(IndexOfUndefinedText)
    ELSE JsError(InvalidResponseText)

\* resolvers.ts:119-123
ChoiceValid(response) ==
    /\ Len(response.choices) > 0
    /\ IsDefined(response.choices[1].message)

\* A result that always takes the upstream id as the conversation id.
BuildResultUpstreamId(in, response, now) ==
    LET choice == response.choices[1]
    IN  [id             |-> response.id,
         message        |-> OrDefault(Get(choice.message).content, <<>>),
         model          |-> response.model,
         usage          |-> IF IsDefined(response.usage)
                              THEN [promptTokens     |-> Get(response.usage).prompt_tokens,
                                    completionTokens |-> Get(response.usage).completion_tokens,
                                    totalTokens      |-> Get(response.usage).total_tokens]
                              ELSE ZeroUsage,
         conversationId |-> response.id,
         timestamp      |-> now,
         finishReason   |-> choice.finish_reason]

\* resolvers.ts:51: the list the models query falls back to.
FallbackModels == <<"deepseek-chat", "deepseek-coder">>
\* schema.ts:200-203: the list getModels returns.
GetModelsList == <<"deepseek-chat", "deepseek-coder">>

\* resolvers.ts:126-142: the result built from the first choice.
BuildResult(in, response, now) ==
    LET choice == response.choices[1]
    IN  [id             |-> response.id,
         message        |-> OrDefault(Get(choice.message).content, <<>>),
         model          |-> response.model,
         usage          |-> IF IsDefined(response.usage)
                              THEN [promptTokens     |-> Get(response.usage).prompt_tokens,
                                    completionTokens |-> Get(response.usage).completion_tokens,
                                    totalTokens      |-> Get(response.usage).total_tokens]
                              ELSE ZeroUsage,
         conversationId |-> IF Truthy(in.conversationId)
                              THEN Get(in.conversationId) ELSE response.id,
         timestamp      |-> now,
         finishReason   |-> choice.finish_reason]

----
\* The inputs and the upstream behaviours explored.

RECURSIVE SeqsOfLen(_, _)
SeqsOfLen(A, n) ==
    IF n = 0 THEN {<<>>}
    ELSE {<<a>> \o t : a \in A, t \in SeqsOfLen(A, n - 1)}
SeqsUpTo(A, n) == UNION {SeqsOfLen(A, k) : k \in 0..n}
Optional(S) == {Undefined} \cup {Some(v) : v \in S}

Nullable(S) == Optional(S) \cup {Null}

\* Texts over a letter, the space and the no-break space.
Texts == SeqsUpTo({" ", "a", "u00A0"}, MaxTextLen)
ApiKeys == {<<"s", "k", "-", "7">>, <<"s", "k", "-", "4", "0", "1">>}
MaxTokensValues == {-5, 0, 1, 2500, 4000, 4001, 50000}
TemperatureValues == {-2, 15}

\* The ChatInput of resolvers.ts:7-14; the schema (schema.ts:20-38) lets
\* every field but message be null.
ChatInputs ==
    [message        : Optional(Texts),
     model          : Nullable({"deepseek-coder"}),
     temperature    : Nullable(TemperatureValues),
     maxTokens      : Nullable(MaxTokensValues),
     conversationId : Nullable({"", "conv-1"}),
     systemPrompt   : Nullable(Texts)]

\* The members of ChatInputs explored: every message, systemPrompt and
\* maxTokens together, and every model, temperature, maxTokens and
\* conversationId together.
TextInputs ==
    [message        : Optional(Texts),
     model          : {Undefined},
     temperature    : {Undefined},
     maxTokens      : Nullable(MaxTokensValues),
     conversationId : {Undefined},
     systemPrompt   : Nullable(Texts)]
OptionInputs ==
    [message        : {Some(<<"a">>)},
     model          : Nullable({"deepseek-coder"}),
     temperature    : Nullable(TemperatureValues),
     maxTokens      : Nullable(MaxTokensValues),
     conversationId : Nullable({"", "conv-1"}),
     systemPrompt   : {Undefined}]
ExploredInputs == TextInputs \cup OptionInputs

\* The env of resolvers.ts:17-22.
Envs ==
    [DEEPSEEK_API_KEY : Optional({<<>>} \cup ApiKeys),
     DEEPSEEK_API_URL : Optional({"https://stub.test/v1"})]

NoInput ==
    [message |-> Undefined, model |-> Undefined, temperature |-> Undefined,
     maxTokens |-> Undefined, conversationId |-> Undefined,
     systemPrompt |-> Undefined]
NoEnv == [DEEPSEEK_API_KEY |-> Undefined, DEEPSEEK_API_URL |-> Undefined]

Statuses == {200, 204, 400, 401, 403, 429, 500, 502, 503}
ResponseOk(status) == 200 <= status /\ status <= 299

\* Error bodies: short digit strings, and bodies that echo the bearer key.
ErrorBodies ==
    SeqsUpTo({"0", "1", "4", "5"}, MaxBodyLen)
      \cup {<<"k", "e", "y", " ">> \o k : k \in ApiKeys}

Choices ==
    {<<>>,
     <<[message |-> Undefined, finish_reason |-> Some("stop")]>>,
     <<[message |-> Some([content |-> Undefined]), finish_reason |-> Undefined]>>,
     <<[message |-> Some([content |-> Some(<<"h", "i">>)]),
        finish_reason |-> Some("stop")],
       [message |-> Some([content |-> Some(<<"y", "o">>)]),
        finish_reason |-> Some("length")]>>}
Usages ==
    Optional({[prompt_tokens |-> 3, completion_tokens |-> 5, total_tokens |-> 8]})

\* The DeepSeekResponse of deepseek.ts:14-32, as parsed from a 2xx body.
JsonBodies ==
    [id : {"abc123", "r-2"}, model : {"deepseek-chat"},
     choices : Choices, usage : Usages]

\* Parsed 2xx bodies without a choices array: an error object, an object
\* with an id only, an object whose choices is null, and null.
NoChoicesBodies ==
    {[error |-> [message |-> <<"b", "a", "d">>]], [id |-> "abc123"],
     [id |-> "abc123", nullFields |-> {"choices"}], JsonNull}
ParsedBodies == JsonBodies \cup NoChoicesBodies

\* 2xx bodies that are not JSON: the empty body, white space, NaN and its
\* like, an x after a space, an x before a short digit string, and bodies
\* that echo the bearer key.
NonJsonBodies ==
    {<<>>, <<" ">>, <<" ", "x">>} \cup SpecialStrings
      \cup {<<"x">> \o b : b \in SeqsUpTo({"0", "1", "4", "5"}, MaxBodyLen)}
      \cup {<<"k", "e", "y", " ">> \o k : k \in ApiKeys}

Timestamps == {"2026-01-01T00:00:00.000Z", "2026-01-01T00:00:01.000Z"}

----
\* The state: one record of fields per chat invocation.  Nothing is shared.

Calls == {1, 2}

VARIABLES
    pc,          \* where the invocation stands
    input,       \* its ChatInput
    env,         \* its context.env
    posts,       \* the fetch calls it has issued, in order
    settled,     \* how many of them have settled
    httpStatus,  \* response.status, once fetch has resolved
    caught,      \* the value the catch block received
    error,       \* the message of the error thrown to the caller
    result,      \* the value returned to the caller
    reply,       \* what the upstream answered to its fetch
    chatPromise, \* the promise of deepseekApi.chat, once it has settled
    models       \* the models query: its position, env and outcome

vars ==
    <<pc, input, env, posts, settled, httpStatus, caught, error, result,
      reply, chatPromise, models>>

\* An invocation runs alone unless the other slot is in use.
Alone(c) == \A d \in Calls \ {c} : pc[d] = "unused"

\* The request that is explored against every upstream behaviour.
Plain(in, e) ==
    /\ in.message = Some(<<"a">>)
    /\ in.model = Undefined /\ in.temperature = Undefined
    /\ in.maxTokens = Undefined /\ in.systemPrompt = Undefined
    /\ e.DEEPSEEK_API_URL = Undefined

ConcurrentInputs ==
    [message        : {Some(<<"a">>), Some(<<" ">>)},
     model          : {Undefined},
     temperature    : {Undefined},
     maxTokens      : {Undefined},
     conversationId : Optional({"", "conv-1"}),
     systemPrompt   : {Undefined}]
ConcurrentEnvs ==
    {e \in Envs : /\ e.DEEPSEEK_API_KEY \in {Undefined} \cup {Some(k) : k \in ApiKeys}
                  /\ e.DEEPSEEK_API_URL = Undefined}

InputsFor(c) == IF Alone(c) THEN ExploredInputs ELSE ConcurrentInputs
EnvsFor(c) == IF Alone(c) THEN Envs ELSE ConcurrentEnvs
Wide(c) == Alone(c) /\ Plain(input[c], env[c])
StatusesFor(c) == IF Wide(c) THEN Statuses ELSE {200, 401}
ErrorBodiesFor(c) == IF Wide(c) THEN ErrorBodies ELSE {<<>>}
JsonBodiesFor(c) ==
    IF Wide(c) THEN ParsedBodies
    ELSE {j \in JsonBodies : j.id = "abc123" /\ IsDefined(j.usage)
                             /\ Len(j.choices) \in {0, 2}}
           \cup {[id |-> "abc123"]}
NonJsonBodiesFor(c) == IF Wide(c) THEN NonJsonBodies ELSE {<<>>}
TimestampsFor(c) ==
    IF Wide(c) THEN Timestamps ELSE {"2026-01-01T00:00:00.000Z"}

\* The models query before it is made (and when none is made).
NoModelsQuery ==
    [pc |-> "unused", env |-> NoEnv, caught |-> Undefined,
     error |-> Undefined, result |-> Undefined]

Init ==
    /\ pc = [c \in Calls |-> IF c = 1 THEN "idle" ELSE "unused"]
    /\ input = [c \in Calls |-> NoInput]
    /\ env = [c \in Calls |-> NoEnv]
    /\ posts = [c \in Calls |-> <<>>]
    /\ settled = [c \in Calls |-> 0]
    /\ httpStatus = [c \in Calls |-> Undefined]
    /\ caught = [c \in Calls |-> Undefined]
    /\ error = [c \in Calls |-> Undefined]
    /\ result = [c \in Calls |-> Undefined]
    /\ reply = [c \in Calls |-> Undefined]
    /\ chatPromise = [c \in Calls |-> Undefined]
    /\ models = NoModelsQuery

InitConcurrent ==
    /\ pc = [c \in Calls |-> "idle"]
    /\ input = [c \in Calls |-> NoInput]
    /\ env = [c \in Calls |-> NoEnv]
    /\ posts = [c \in Calls |-> <<>>]
    /\ settled = [c \in Calls |-> 0]
    /\ httpStatus = [c \in Calls |-> Undefined]
    /\ caught = [c \in Calls |-> Undefined]
    /\ error = [c \in Calls |-> Undefined]
    /\ result = [c \in Calls |-> Undefined]
    /\ reply = [c \in Calls |-> Undefined]
    /\ chatPromise = [c \in Calls |-> Undefined]
    /\ models = NoModelsQuery

\* Two chat invocations and one models query.
InitModels ==
    /\ pc = [c \in Calls |-> "idle"]
    /\ input = [c \in Calls |-> NoInput]
    /\ env = [c \in Calls |-> NoEnv]
    /\ posts = [c \in Calls |-> <<>>]
    /\ settled = [c \in Calls |-> 0]
    /\ httpStatus = [c \in Calls |-> Undefined]
    /\ caught = [c \in Calls |-> Undefined]
    /\ error = [c \in Calls |-> Undefined]
    /\ result = [c \in Calls |-> Undefined]
    /\ reply = [c \in Calls |-> Undefined]
    /\ chatPromise = [c \in Calls |-> Undefined]
    /\ models = [NoModelsQuery EXCEPT !.pc = "idle"]

\* resolvers.ts:148-169: the catch block receives e and throws its translation.
Catch(c, e) ==
    /\ pc' = [pc EXCEPT ![c] = "thrown"]
    /\ caught' = [caught EXCEPT ![c] = Some(e)]
    /\ error' = [error EXCEPT ![c] = Some(Translate(e))]
    /\ UNCHANGED result

\* A handler that keeps one client for the whole module: an invocation that
\* starts while another one is under way posts with the key of that one.
ChatStartSharedClient(c) ==
    /\ pc[c] = "idle"
    /\ \E in \in InputsFor(c), e \in EnvsFor(c) :
        /\ input' = [input EXCEPT ![c] = in]
        /\ env' = [env EXCEPT ![c] = e]
        /\ IF KeyMissing(e.DEEPSEEK_API_KEY)
             THEN Catch(c, JsError(MissingKeyText)) /\ UNCHANGED posts
           ELSE IF MessageInvalid(in.message)
             THEN Catch(c, JsError(EmptyMessageText)) /\ UNCHANGED posts
           ELSE /\ \E d \in Calls :
                     /\ d = c \/ Len(posts[d]) > 0
                     /\ (\E o \in Calls \ {c} : Len(posts[o]) > 0) => d /= c
                     /\ posts' = [posts EXCEPT ![c] =
                           Append(@, FetchCall(
                               Get((IF d = c THEN e ELSE env[d]).DEEPSEEK_API_KEY),
                               e.DEEPSEEK_API_URL, BuildRequest(in)))]
                /\ pc' = [pc EXCEPT ![c] = "fetching"]
                /\ UNCHANGED <<caught, error, result>>
    /\ UNCHANGED <<settled, httpStatus, reply, chatPromise, models>>

\* resolvers.ts:64-117 and deepseek.ts:43-51: the handler runs to its first
\* await, the fetch, or throws before it.
ChatStart(c) ==
    /\ pc[c] = "idle"
    /\ \E in \in InputsFor(c), e \in EnvsFor(c) :
        /\ input' = [input EXCEPT ![c] = in]
        /\ env' = [env EXCEPT ![c] = e]
        /\ IF KeyMissing(e.DEEPSEEK_API_KEY)
             THEN Catch(c, JsError(MissingKeyText)) /\ UNCHANGED posts
           ELSE IF MessageInvalid(in.message)
             THEN Catch(c, JsError(EmptyMessageText)) /\ UNCHANGED posts
           ELSE /\ posts' = [posts EXCEPT ![c] =
                      Append(@, FetchCall(Get(e.DEEPSEEK_API_KEY),
                                          e.DEEPSEEK_API_URL, BuildRequest(in)))]
                /\ pc' = [pc EXCEPT ![c] = "fetching"]
                /\ UNCHANGED <<caught, error, result>>
    /\ UNCHANGED <<settled, httpStatus, reply, chatPromise, models>>

\* A client that posts again when fetch rejects.
FetchRejectsRetry(c) ==
    /\ pc[c] = "fetching"
    /\ Len(posts[c]) < 3
    /\ settled' = [settled EXCEPT ![c] = @ + 1]
    /\ posts' = [posts EXCEPT ![c] = Append(@, @[1])]
    /\ UNCHANGED <<pc, input, env, httpStatus, caught, error, result, reply,
                   chatPromise, models>>

\* The promise of deepseekApi.chat rejects with e; the resolver, which
\* awaits it (resolvers.ts:112), resumes in a later job.
ChatRejects(c, e) ==
    /\ chatPromise' = [chatPromise EXCEPT ![c] = Some([reason |-> e])]
    /\ pc' = [pc EXCEPT ![c] = "resuming"]
    /\ UNCHANGED <<caught, error, result>>

\* deepseek.ts:44: fetch rejects (network failure); the rejection leaves
\* DeepSeekAPI.chat.
FetchRejects(c) ==
    /\ pc[c] = "fetching"
    /\ settled' = [settled EXCEPT ![c] = @ + 1]
    /\ \E e \in {JsError(FetchFailedText), NonError} :
        /\ ChatRejects(c, e)
        /\ reply' = [reply EXCEPT ![c] = Some([rejected |-> e])]
    /\ UNCHANGED <<input, env, posts, httpStatus, models>>

\* deepseek.ts:44-53: fetch resolves with a status.
FetchResolves(c) ==
    /\ pc[c] = "fetching"
    /\ settled' = [settled EXCEPT ![c] = @ + 1]
    /\ \E status \in StatusesFor(c) :
        httpStatus' = [httpStatus EXCEPT ![c] = Some(status)]
    /\ pc' = [pc EXCEPT ![c] = "reading"]
    /\ UNCHANGED <<input, env, posts, caught, error, result, reply,
                   chatPromise, models>>

\* deepseek.ts:53-56: a status that is not 2xx; the body is read as text and
\* DeepSeekAPI.chat throws its Error, or the read fails and its rejection
\* leaves DeepSeekAPI.chat in place of that Error.
ReadErrorBody(c) ==
    /\ pc[c] = "reading"
    /\ ~ResponseOk(Get(httpStatus[c]))
    /\ \/ \E errorText \in ErrorBodiesFor(c) :
            /\ ChatRejects(c, ApiError(Get(httpStatus[c]), errorText))
            /\ reply' = [reply EXCEPT ![c] = Some([text |-> errorText])]
       \/ /\ ChatRejects(c, BodyReadError)
          /\ reply' = [reply EXCEPT ![c] = Some([unread |-> BodyReadError])]
    /\ UNCHANGED <<input, env, posts, settled, httpStatus, models>>

\* deepseek.ts:58: a 2xx body that is not JSON, or whose read fails;
\* response.json() rejects and the rejection leaves DeepSeekAPI.chat.
ReadJsonFails(c) ==
    /\ pc[c] = "reading"
    /\ ResponseOk(Get(httpStatus[c]))
    /\ \/ \E body \in NonJsonBodiesFor(c) :
            /\ ChatRejects(c, JsonSyntaxError(body))
            /\ reply' = [reply EXCEPT ![c] = Some([notJson |-> body])]
       \/ /\ ChatRejects(c, BodyReadError)
          /\ reply' = [reply EXCEPT ![c] = Some([unread |-> BodyReadError])]
    /\ UNCHANGED <<input, env, posts, settled, httpStatus, models>>

\* deepseek.ts:58: a 2xx body is parsed and DeepSeekAPI.chat returns it.
ReadJsonBody(c) ==
    /\ pc[c] = "reading"
    /\ ResponseOk(Get(httpStatus[c]))
    /\ \E response \in JsonBodiesFor(c) :
        /\ reply' = [reply EXCEPT ![c] = Some([json |-> response])]
        /\ chatPromise' = [chatPromise EXCEPT ![c] = Some([value |-> response])]
    /\ pc' = [pc EXCEPT ![c] = "resuming"]
    /\ UNCHANGED <<input, env, posts, settled, httpStatus, caught, error,
                   result, models>>

\* resolvers.ts:112, 148-169: the resolver resumes from its await on a
\* rejected promise and runs its catch block.
ResolverCatches(c) ==
    /\ pc[c] = "resuming"
    /\ "reason" \in DOMAIN Get(chatPromise[c])
    /\ Catch(c, Get(chatPromise[c]).reason)
    /\ UNCHANGED <<input, env, posts, settled, httpStatus, reply,
                   chatPromise, models>>

\* resolvers.ts:112-146: the resolver resumes from its await on the body,
\* reads the first choice and the clock, and returns the result; a body
\* that gives none is thrown into the catch block in the same job.
ResolverMaps(c) ==
    /\ pc[c] = "resuming"
    /\ "value" \in DOMAIN Get(chatPromise[c])
    /\ LET response == Get(chatPromise[c]).value
       IN  IF ChoicesReadable(response) /\ ChoiceValid(response)
             THEN /\ \E now \in TimestampsFor(c) :
                       result' = [result EXCEPT ![c] =
                           Some(BuildResult(input[c], response, now))]
                  /\ pc' = [pc EXCEPT ![c] = "returned"]
                  /\ UNCHANGED <<caught, error>>
             ELSE Catch(c, MappingError(response))
    /\ UNCHANGED <<input, env, posts, settled, httpStatus, reply,
                   chatPromise, models>>

Next ==
    \E c \in Calls :
        \/ ChatStart(c)
        \/ FetchRejects(c)
        \/ FetchResolves(c)
        \/ ReadErrorBody(c)
        \/ ReadJsonFails(c)
        \/ ReadJsonBody(c)
        \/ ResolverCatches(c)
        \/ ResolverMaps(c)

chatVars ==
    <<pc, input, env, posts, settled, httpStatus, caught, error, result, reply,
      chatPromise>>

\* A models query whose catch block throws instead of falling back.
ModelsCatchRethrow(ev, e) ==
    /\ models.pc \in {"idle", "listing"}
    /\ models' = [models EXCEPT !.pc = "thrown", !.env = ev, !.caught = Some(e),
                                !.error = Some(e.message)]

\* resolvers.ts:48-52: the catch block of the models query logs the error
\* and returns the fallback list; ev is the env of the query.
ModelsCatch(ev, e) ==
    /\ models.pc \in {"idle", "listing"}
    /\ models' = [models EXCEPT !.pc = "returned", !.env = ev, !.caught = Some(e),
                                !.result = Some(FallbackModels)]

\* resolvers.ts:36-47: the models query runs to its await of getModels, or
\* throws before it when the key is missing.
ModelsStart ==
    /\ models.pc = "idle"
    /\ \E e \in Envs :
        IF KeyMissing(e.DEEPSEEK_API_KEY)
          THEN ModelsCatch(e, JsError(ModelsMissingKeyText))
          ELSE models' = [models EXCEPT !.pc = "listing", !.env = e]
    /\ UNCHANGED chatVars

\* schema.ts:200-203: getModels resolves with its list, which the query
\* returns (resolvers.ts:47).
GetModelsResolves ==
    /\ models.pc = "listing"
    /\ models' = [models EXCEPT !.pc = "returned",
                                !.result = Some(GetModelsList)]
    /\ UNCHANGED chatVars

\* resolvers.ts:47: the call of getModels raises: the client class of
\* deepseek.ts has no such method, so the call is a TypeError.
GetModelsFails ==
    /\ models.pc = "listing"
    /\ ModelsCatch(models.env, JsError(NotAFunctionText))
    /\ UNCHANGED chatVars

NextModels ==
    \/ Next
    \/ ModelsStart
    \/ GetModelsResolves
    \/ GetModelsFails

Spec == Init /\ [][Next]_vars
SpecConcurrent == InitConcurrent /\ [][Next]_vars
SpecModels == InitModels /\ [][NextModels]_vars

TypeOK ==
    /\ \A c \in Calls :
          pc[c] \in {"unused", "idle", "fetching", "reading", "resuming",
                     "returned", "thrown"}
    /\ \A c \in Calls : Len(posts[c]) <= 1

----
\* What the claims speak of.

Finished(c) == pc[c] \in {"returned", "thrown"}
NetworkCalls(c) == Len(posts[c])
\* The message is absent, empty or white space only.
Blank(message) ==
    \/ ~IsDefined(message)
    \/ \A i \in 1..Len(Get(message)) : Get(message)[i] \in WhiteSpace
KeyPresent(c) ==
    IsDefined(env[c].DEEPSEEK_API_KEY) /\ Get(env[c].DEEPSEEK_API_KEY) /= <<>>
HasPrefix(s, p) == Len(s) >= Len(p) /\ SubSeq(s, 1, Len(p)) = p
\* t is s without the white space at its two ends.
IsTrimOf(t, s) ==
    /\ t = <<>> \/ (t[1] \notin WhiteSpace /\ t[Len(t)] \notin WhiteSpace)
    /\ \E i \in 0..Len(s) :
        /\ i + Len(t) <= Len(s)
        /\ SubSeq(s, i + 1, i + Len(t)) = t
        /\ \A j \in (1..i) \cup ((i + Len(t) + 1)..Len(s)) : s[j] \in WhiteSpace
\* The failure class a caller reads off the message of the thrown error.
ErrorClass(msg) ==
    IF msg = InvalidKeyText THEN "invalid credential"
    ELSE IF msg = RateLimitedText THEN "rate limited"
    ELSE IF msg = UnavailableText THEN "unavailable"
    ELSE IF msg = EmptyMessageText THEN "validation"
    ELSE IF msg = MissingKeyText THEN "configuration"
    ELSE IF HasPrefix(msg, ChatFailedPrefix) THEN "chat request failed"
    ELSE "other"
\* The upstream answered call c with a status that is not 2xx and the
\* invocation has failed.
UpstreamFailed(c, status) ==
    /\ pc[c] = "thrown"
    /\ httpStatus[c] = Some(status)
    /\ ~ResponseOk(status)

\* C1 (as stated): every finished invocation with a blank message failed
\* with the empty-message text and issued no network call.
C1_AsStated ==
    \A c \in Calls :
        Finished(c) /\ Blank(input[c].message) =>
            /\ pc[c] = "thrown"
            /\ Includes(Get(error[c]), EmptyMessageText)
            /\ NetworkCalls(c) = 0

\* C1 (amended): a finished invocation with a blank message issued no
\* network call and failed; with the key present the error carries the
\* empty-message text, with the key missing it carries the missing-key text.
C1_BlankMessageFails ==
    \A c \in Calls :
        Finished(c) /\ Blank(input[c].message) =>
            /\ pc[c] = "thrown"
            /\ NetworkCalls(c) = 0
            /\ KeyPresent(c) => Includes(Get(error[c]), EmptyMessageText)
            /\ ~KeyPresent(c) =>
                  /\ Includes(Get(error[c]), MissingKeyText)
                  /\ ~Includes(Get(error[c]), EmptyMessageText)

C1_Witness ==
    \E c \in Calls :
        /\ pc[c] = "thrown"
        /\ KeyPresent(c)
        /\ input[c].message = Some(<<" ">>)
        /\ IsDefined(input[c].systemPrompt)
        /\ IsDefined(input[c].maxTokens)
        /\ NetworkCalls(c) = 0

\* C2: an invocation issues at most one POST on every path, exactly one
\* once it has started with the key present and a message that is not
\* blank, none otherwise, and it returns or throws only when that call has
\* settled.
C2_SinglePost ==
    \A c \in Calls :
        /\ NetworkCalls(c) <= 1
        /\ \A i \in 1..NetworkCalls(c) : posts[c][i].method = "POST"
        /\ pc[c] \notin {"unused", "idle"} =>
              NetworkCalls(c) =
                  IF KeyPresent(c) /\ ~Blank(input[c].message) THEN 1 ELSE 0
        /\ Finished(c) => settled[c] = NetworkCalls(c)
        /\ pc[c] \in {"fetching", "reading", "resuming"} => NetworkCalls(c) = 1
        /\ pc[c] = "resuming" => settled[c] = 1

C2_Witness ==
    \E c \in Calls :
        /\ pc[c] = "thrown"
        /\ NetworkCalls(c) = 1
        /\ settled[c] = 1
        /\ httpStatus[c] = Some(503)

\* C3 (as stated): with the key absent or empty the invocation issues no
\* network call and fails in a class of its own, not the validation,
\* invalid-credential, rate-limit, unavailable or chat-request-failed class.
C3_AsStated ==
    \A c \in Calls :
        Finished(c) /\ ~KeyPresent(c) =>
            /\ pc[c] = "thrown"
            /\ NetworkCalls(c) = 0
            /\ ErrorClass(Get(error[c])) \notin
                  {"validation", "invalid credential", "rate limited",
                   "unavailable", "chat request failed"}

\* C4 (as stated): the message of the thrown error never contains the key.
C4_AsStated ==
    \A c \in Calls :
        pc[c] = "thrown" /\ KeyPresent(c) =>
            ~Includes(Get(error[c]), Get(env[c].DEEPSEEK_API_KEY))

\* C5 (as stated): an upstream status of 500 or more fails with the
\* unavailable class, whatever the body.
C5_AsStated ==
    \A c \in Calls : \A status \in Statuses :
        UpstreamFailed(c, status) /\ status >= 500 =>
            Get(error[c]) = UnavailableText

\* C6 (as stated): an upstream status of 429 fails with the rate-limit
\* class, whatever the body.
C6_AsStated ==
    \A c \in Calls :
        UpstreamFailed(c, 429) => Get(error[c]) = RateLimitedText

\* C7 (as stated): an upstream status of 401 fails with the
\* invalid-credential class, whatever the body, and the message does not
\* contain the key.
C7_AsStated ==
    \A c \in Calls :
        UpstreamFailed(c, 401) =>
            /\ Get(error[c]) = InvalidKeyText
            /\ ErrorClass(Get(error[c])) = "invalid credential"
            /\ ~Includes(Get(error[c]), Get(env[c].DEEPSEEK_API_KEY))

\* C8 (as stated): the error thrown for a blank message has exactly the
\* message of the validation error.
C8_AsStated ==
    \A c \in Calls :
        pc[c] = "thrown" /\ caught[c] = Some(JsError(EmptyMessageText)) =>
            Get(error[c]) = EmptyMessageText

\* C9: the max_tokens of every outbound request is maxTokens pulled into
\* [1,4000], or 2000 when maxTokens is omitted, and no value of maxTokens
\* keeps an invocation from its upstream call.
C9_MaxTokensClamped ==
    \A c \in Calls :
        /\ \A i \in 1..NetworkCalls(c) :
              LET sent == posts[c][i].body.max_tokens
                  given == input[c].maxTokens
              IN  IF given = Undefined THEN sent = 2000
                  ELSE IF given = Null THEN TRUE
                  ELSE IF Get(given) < 1 THEN sent = 1
                  ELSE IF Get(given) > 4000 THEN sent = 4000
                  ELSE sent = Get(given)
        /\ pc[c] = "thrown" /\ NetworkCalls(c) = 0 =>
              ~KeyPresent(c) \/ Blank(input[c].message)

C9_Witness ==
    \E c \in Calls :
        /\ NetworkCalls(c) = 1
        /\ input[c].maxTokens = Some(0)
        /\ posts[c][1].body.max_tokens = 1

\* C10: the outbound messages are [system, user] when systemPrompt is
\* present and not blank, [user] otherwise; the user content is the trimmed
\* message, the system content the trimmed systemPrompt, and there is no
\* other message.
C10_MessageSequence ==
    \A c \in Calls : \A i \in 1..NetworkCalls(c) :
        LET msgs == posts[c][i].body.messages
            user == msgs[Len(msgs)]
        IN  /\ Len(msgs) = IF Blank(input[c].systemPrompt) THEN 1 ELSE 2
            /\ user.role = "user"
            /\ IsTrimOf(user.content, Get(input[c].message))
            /\ Len(msgs) = 2 =>
                  /\ msgs[1].role = "system"
                  /\ IsTrimOf(msgs[1].content, Get(input[c].systemPrompt))
            /\ \A k \in 1..Len(msgs) : msgs[k].role /= "assistant"

C10_Witness ==
    \E c \in Calls :
        /\ NetworkCalls(c) = 1
        /\ input[c].systemPrompt = Some(<<" ", "a">>)
        /\ input[c].message = Some(<<"a", " ">>)
        /\ posts[c][1].body.messages =
              <<[role |-> "system", content |-> <<"a">>],
                [role |-> "user", content |-> <<"a">>]>>

\* C11: the conversationId of a returned result is the conversationId of
\* the input when one is given and not empty, verbatim, and the id of the
\* upstream response otherwise.
C11_ConversationId ==
    \A c \in Calls :
        pc[c] = "returned" =>
            LET given == input[c].conversationId
                upstreamId == Get(reply[c]).json.id
            IN  Get(result[c]).conversationId =
                    IF IsDefined(given) /\ Get(given) /= ""
                      THEN Get(given) ELSE upstreamId

C11_Witness ==
    \E c \in Calls :
        /\ pc[c] = "returned"
        /\ input[c].conversationId = Some("conv-1")
        /\ Get(reply[c]).json.id = "r-2"
        /\ Get(result[c]).conversationId = "conv-1"

\* C12: the models query never throws; with the key missing, or when
\* getModels raises, it returns the list deepseek-chat, deepseek-coder.
\* A chat invocation that catches a failure always throws to its caller.
C12_ModelsNeverFail ==
    /\ models.pc /= "thrown"
    /\ models.error = Undefined
    /\ models.pc = "returned" =>
          /\ IsDefined(models.result)
          /\ Len(Get(models.result)) > 0
          /\ ~Truthy(models.env.DEEPSEEK_API_KEY) \/ IsDefined(models.caught) =>
                Get(models.result) = <<"deepseek-chat", "deepseek-coder">>
          /\ ~Truthy(models.env.DEEPSEEK_API_KEY) => IsDefined(models.caught)
    /\ \A c \in Calls :
          IsDefined(caught[c]) =>
              /\ pc[c] = "thrown"
              /\ IsDefined(error[c])
              /\ ~IsDefined(result[c])

C12_Witness ==
    /\ models.pc = "returned"
    /\ Truthy(models.env.DEEPSEEK_API_KEY)
    /\ IsDefined(models.caught)
    /\ Get(models.result) = <<"deepseek-chat", "deepseek-coder">>
    /\ \E c \in Calls : pc[c] = "thrown" /\ httpStatus[c] = Some(401)

\* The posts an invocation with this input and env issues when it runs alone.
SoloPosts(in, e) ==
    IF ~Truthy(e.DEEPSEEK_API_KEY) \/ Blank(in.message) THEN <<>>
    ELSE <<FetchCall(Get(e.DEEPSEEK_API_KEY), e.DEEPSEEK_API_URL, BuildRequest(in))>>
\* The failure an invocation that runs alone catches, given what it was
\* called with and what the upstream answered to it.
SoloFailure(in, e, status, answer) ==
    IF ~Truthy(e.DEEPSEEK_API_KEY) THEN JsError(MissingKeyText)
    ELSE IF Blank(in.message) THEN JsError(EmptyMessageText)
    ELSE IF "rejected" \in DOMAIN Get(answer) THEN Get(answer).rejected
    ELSE IF "unread" \in DOMAIN Get(answer) THEN Get(answer).unread
    ELSE IF "text" \in DOMAIN Get(answer) THEN ApiError(Get(status), Get(answer).text)
    ELSE IF "notJson" \in DOMAIN Get(answer)
      THEN JsonSyntaxError(Get(answer).notJson)
    ELSE MappingError(Get(answer).json)
\* The fields of invocation c.
Own(c) ==
    <<pc[c], input[c], env[c], posts[c], settled[c], httpStatus[c],
      caught[c], error[c], result[c], reply[c], chatPromise[c]>>
\* The result without its timestamp.
Untimed(r) == IF IsDefined(r) THEN Some([Get(r) EXCEPT !.timestamp = ""]) ELSE r

\* Under every interleaving, what an invocation has posted and what it has
\* returned or thrown is what its own input, env and upstream answer give
\* when it runs alone, and two invocations with the same input, env and
\* answer end alike but for the timestamp.
C13_OwnOutcome ==
    /\ \A c \in Calls :
        /\ pc[c] \notin {"unused", "idle"} =>
              posts[c] = SoloPosts(input[c], env[c])
        /\ pc[c] = "returned" =>
              /\ "json" \in DOMAIN Get(reply[c])
              /\ result[c] = Some(BuildResult(input[c], Get(reply[c]).json,
                                              Get(result[c]).timestamp))
              /\ ~IsDefined(error[c])
        /\ pc[c] = "thrown" =>
              /\ error[c] = Some(Translate(SoloFailure(input[c], env[c],
                                                       httpStatus[c], reply[c])))
              /\ ~IsDefined(result[c])
    /\ \A c, d \in Calls :
        /\ Finished(c) /\ Finished(d)
        /\ input[c] = input[d] /\ env[c] = env[d]
        /\ httpStatus[c] = httpStatus[d] /\ reply[c] = reply[d]
        => /\ posts[c] = posts[d]
           /\ error[c] = error[d]
           /\ Untimed(result[c]) = Untimed(result[d])

\* A step of one invocation leaves every field of the others alone.
C13_StepIsLocal ==
    \A c \in Calls :
        Own(c)' /= Own(c) => \A d \in Calls \ {c} : Own(d)' = Own(d)

\* C13: under any interleaving of concurrent chat invocations, each one's
\* outbound request and its result or error depend on its own input, env
\* and upstream answer only, and no step of one touches another.
C13_Isolation == [](C13_OwnOutcome) /\ [][C13_StepIsLocal]_vars

C13_Witness ==
    /\ pc[1] = "returned" /\ pc[2] = "thrown"
    /\ env[1].DEEPSEEK_API_KEY /= env[2].DEEPSEEK_API_KEY
    /\ KeyPresent(1) /\ KeyPresent(2)
    /\ NetworkCalls(1) = 1 /\ NetworkCalls(2) = 1
    /\ httpStatus[2] = Some(401)
    /\ input[1].conversationId /= input[2].conversationId
====
